---- MODULE Spec2Model ----
(***************************************************************************)
(* A model of the two analyzers of kevchin/portfolio_risk:                 *)
(*   - PortfolioRiskAnalyzer (src/portfolio_risk_analyzer.py): the loaded  *)
(*     tables, the returns computation and the risk metrics;               *)
(*   - IndexFundFeeAnalyzer (src/index_fund_fee_analyzer.py): expense      *)
(*     ratio lookup, normalisation, categorisation and fund comparison.    *)
(* and of filter_and_rewrite_csv (src/process_portfolio.py) over a small   *)
(* file system of character texts.                                         *)
(*                                                                         *)
(* Numbers are exact rationals <<n, d>> (d > 0, lowest terms); the float   *)
(* not-a-number is <<0, 0>> and the infinities are <<1, 0>> and <<-1, 0>>. *)
(* Python's None is the record [kind |-> "None"].                          *)
(***************************************************************************)
EXTENDS Integers, Sequences, FiniteSets, TLC

VARIABLES
    history_df,   \* PortfolioRiskAnalyzer.history_df
    holdings_df,  \* PortfolioRiskAnalyzer.holdings_df
    fill_pad,     \* whether the installed pandas forward-fills in pct_change
    fund_data,    \* IndexFundFeeAnalyzer.fund_data
    files,        \* the text of each file, by path
    op,           \* the method called last
    args,         \* its inputs (arguments, file content, provider answers)
    ret,          \* the value it returned
    out           \* what it printed, in abstract form

vars == <<history_df, holdings_df, fill_pad, fund_data, files, op, args, ret, out>>

---------------------------------------------------------------------------
(* Bounds of the model *)

MaxRows == 3      \* rows of a price table
MaxTickers == 2   \* length of a ticker list given to compare_funds
GapRows == 4      \* rows of a price table with a missing cell inside
MaxDataRows == 2  \* data lines of a file given to filter_and_rewrite_csv

\* the prices a file may hold (positive: a price of 0 is not modelled)
Prices == {1, 2}

---------------------------------------------------------------------------
(* Exact rational arithmetic, standing for the floats of the program *)

None == [kind |-> "None"]
NaN == <<0, 0>>
PosInf == <<1, 0>>
NegInf == <<-1, 0>>

Abs(x) == IF x < 0 THEN -x ELSE x

Sign(x) == IF x < 0 THEN -1 ELSE IF x > 0 THEN 1 ELSE 0

RECURSIVE GCD(_, _)
GCD(a, b) == IF b = 0 THEN a ELSE GCD(b, a % b)

\* n/d in lowest terms with a positive denominator; x/0 is nan or +-inf
Norm(n, d) ==
    IF d = 0 THEN <<Sign(n), 0>>
    ELSE LET g == GCD(Abs(n), Abs(d))
             s == IF d < 0 THEN -1 ELSE 1
         IN <<(s * n) \div g, (s * d) \div g>>

R(n) == <<n, 1>>

IsNaN(a) == a = NaN

IsFinite(a) == a[2] # 0

\* arithmetic on finite values; a non-finite operand gives nan (the model
\* never mixes an infinity into arithmetic: prices are positive). Common
\* factors are cancelled before multiplying to keep the integers small
RAdd(a, b) ==
    IF IsFinite(a) /\ IsFinite(b)
    THEN LET g == GCD(a[2], b[2])
         IN Norm(a[1] * (b[2] \div g) + b[1] * (a[2] \div g), (a[2] \div g) * b[2])
    ELSE NaN

RNeg(a) == <<-a[1], a[2]>>

RSub(a, b) == RAdd(a, RNeg(b))

RMul(a, b) ==
    IF IsFinite(a) /\ IsFinite(b)
    THEN LET g1 == GCD(Abs(a[1]), b[2])
             g2 == GCD(Abs(b[1]), a[2])
         IN Norm((a[1] \div g1) * (b[1] \div g2), (a[2] \div g2) * (b[2] \div g1))
    ELSE NaN

\* x/0 is nan for x = 0 and an infinity otherwise
RDiv(a, b) ==
    IF IsFinite(a) /\ IsFinite(b)
    THEN IF b[1] = 0 THEN <<Sign(a[1]), 0>>
         ELSE RMul(a, <<Sign(b[1]) * b[2], Abs(b[1])>>)
    ELSE NaN

\* n1/d1 < n2/d2 for d1, d2 > 0, by comparing integer parts (no products)
RECURSIVE FracLt(_, _, _, _)
FracLt(n1, d1, n2, d2) ==
    LET q1 == n1 \div d1
        q2 == n2 \div d2
        r1 == n1 % d1
        r2 == n2 % d2
    IN IF q1 # q2 THEN q1 < q2
       ELSE IF r2 = 0 THEN FALSE
       ELSE IF r1 = 0 THEN TRUE
       ELSE FracLt(d2, r2, d1, r1)

\* float comparisons: every comparison with nan is False
RLt(a, b) == IsFinite(a) /\ IsFinite(b) /\ FracLt(a[1], a[2], b[1], b[2])

RLe(a, b) == IsFinite(a) /\ IsFinite(b) /\ ~FracLt(b[1], b[2], a[1], a[2])

RECURSIVE SumSeq(_)
SumSeq(s) == IF s = <<>> THEN R(0) ELSE RAdd(Head(s), SumSeq(Tail(s)))

Mean(s) == RDiv(SumSeq(s), R(Len(s)))

\* the members of a set of integers in ascending order
RECURSIVE SortedSeq(_)
SortedSeq(S) ==
    IF S = {} THEN <<>>
    ELSE LET m == CHOOSE x \in S : \A y \in S : x <= y
         IN <<m>> \o SortedSeq(S \ {m})

\* the non-nan cells of a column, in order (Series.dropna / skipna=True)
DropNa(s) == SelectSeq(s, LAMBDA c : ~IsNaN(c))

---------------------------------------------------------------------------
(* PortfolioRiskAnalyzer: the input files *)

AssetNames == {"SPY", "AAA", "BBB"}

\* the asset columns of a file: the benchmark with another asset, or two
\* assets without the benchmark
ColumnLists == {<<"SPY", "AAA">>, <<"AAA", "BBB">>}

\* a cell of a price column: a positive price, or missing (read as nan)
Cells == {NaN} \cup {R(p) : p \in Prices}

\* the first asset column of a file is complete, the second may miss cells
\* anywhere (leading, interior, trailing, or all of them)
FullColumns(n) == [1..n -> {R(p) : p \in Prices}]

Columns(n) == [1..n -> Cells]

Tables(n) == {<<c1, c2>> : c1 \in FullColumns(n), c2 \in Columns(n)}

\* Date column: absent, parseable by pd.to_datetime, or not parseable
DateKinds == {"none", "good", "bad"}

\* longer tables in which no price ever changes and the second asset
\* misses one cell between its first and last row
GapTables ==
    {<<[t \in 1..GapRows |-> R(p1)],
       [t \in 1..GapRows |-> IF t = g THEN NaN ELSE R(p2)]>> :
        p1 \in Prices, p2 \in Prices, g \in 2..(GapRows - 1)}

\* the price tables of two rows
ShortTables == Tables(2)

\* the price tables of every length
LongTables == UNION {Tables(n) : n \in 2..MaxRows} \cup GapTables

\* a readable history file: two or more rows of prices. The files with the
\* benchmark and a Date column that parses hold the tables of every length;
\* the files without the benchmark hold the short tables and the tables
\* with a gap; the files without a Date column, or with one that does not
\* parse, hold the short tables
CsvFiles ==
    {[kind |-> "csv", date |-> "good", cols |-> <<"SPY", "AAA">>, data |-> d] :
        d \in LongTables}
    \cup {[kind |-> "csv", date |-> "good", cols |-> <<"AAA", "BBB">>, data |-> d] :
            d \in ShortTables \cup GapTables}
    \cup {[kind |-> "csv", date |-> dk, cols |-> cl, data |-> d] :
            dk \in DateKinds \ {"good"}, cl \in ColumnLists, d \in ShortTables}

\* a path with no file behind it, or a file pd.read_csv cannot parse
BrokenFiles == {[kind |-> "missing"], [kind |-> "malformed"]}

HistoryFiles == BrokenFiles \cup CsvFiles

HoldingsFiles == BrokenFiles \cup {[kind |-> "csv"]}

\* pd.read_csv: the table of a readable file; the Date column holds strings
read_csv(f) == [kind |-> "df", date |-> IF f.date = "none" THEN "none" ELSE "str",
                cols |-> f.cols, data |-> f.data]

---------------------------------------------------------------------------
(* PortfolioRiskAnalyzer: returns *)

\* Series.ffill: each cell replaced by the last present cell at or before it
ffill(col) ==
    [t \in 1..Len(col) |->
        LET seen == {u \in 1..t : ~IsNaN(col[u])}
        IN IF seen = {} THEN NaN
           ELSE col[CHOOSE u \in seen : \A w \in seen : w <= u]]

\* Series.pct_change: price[t]/price[t-1] - 1, nan in the first row. pandas
\* before 3.0 forward-fills missing prices first (fill_method='pad'); pandas
\* 3.0 does not
\* pct_change with the ratio taken the wrong way round
pct_change_inverted(col, pad) ==
    LET filled == IF pad THEN ffill(col) ELSE col
    IN [t \in 1..Len(col) |->
           IF t = 1 THEN NaN
           ELSE RSub(RDiv(filled[t - 1], filled[t]), R(1))]

pct_change(col, pad) ==
    LET filled == IF pad THEN ffill(col) ELSE col
    IN [t \in 1..Len(col) |->
           IF t = 1 THEN NaN
           ELSE RSub(RDiv(filled[t], filled[t - 1]), R(1))]

\* calculate_asset_returns: None without a history; otherwise one column
\* of returns per column other than 'Date', each with its nan rows dropped,
\* put together by pd.DataFrame on the sorted union of the row labels
calculate_asset_returns(h, pad) ==
    IF h = None THEN None
    ELSE LET nc == Len(h.cols)
             pc == [i \in 1..nc |-> pct_change(h.data[i], pad)]
             kept(i) == {t \in 1..Len(pc[i]) : ~IsNaN(pc[i][t])}
             idx == SortedSeq(UNION {kept(i) : i \in 1..nc})
         IN [kind |-> "df", cols |-> h.cols, idx |-> idx,
             data |-> [i \in 1..nc |-> [k \in 1..Len(idx) |-> pc[i][idx[k]]]]]

\* returns_df[asset]
Column(r, asset) == r.data[CHOOSE i \in 1..Len(r.cols) : r.cols[i] = asset]

HasColumn(r, asset) == \E i \in 1..Len(r.cols) : r.cols[i] = asset

\* returns_df[asset].isna().all()
AllNa(col) == \A k \in 1..Len(col) : IsNaN(col[k])

---------------------------------------------------------------------------
(* PortfolioRiskAnalyzer: the metrics. A pd.Series keyed by asset holds    *)
(* a sequence of records [asset, value] in key order.                      *)

Series(items) == [kind |-> "Series", items |-> items]

\* sum of (x - m)(y - n) over two sequences of the same length
RECURSIVE CoSum(_, _, _, _)
CoSum(x, m, y, n) ==
    IF x = <<>> THEN R(0)
    ELSE RAdd(RMul(RSub(Head(x), m), RSub(Head(y), n)), CoSum(Tail(x), m, Tail(y), n))

\* Series.var(ddof): nan cells skipped; nan when too few cells are left
Variance(col, ddof) ==
    LET v == DropNa(col)
    IN IF Len(v) - ddof <= 0 THEN NaN
       ELSE RDiv(CoSum(v, Mean(v), v, Mean(v)), R(Len(v) - ddof))

\* np.cov(x, y)[0][1]: the sample covariance (ddof 1, numpy's default); a
\* nan anywhere in x or y, or a single observation, gives nan
Covariance(x, y) ==
    IF Len(x) < 2 \/ (\E k \in 1..Len(x) : IsNaN(x[k]) \/ IsNaN(y[k])) THEN NaN
    ELSE RDiv(CoSum(x, Mean(x), y, Mean(y)), R(Len(x) - 1))

\* Series.std() is the root of the sample variance and sqrt(252) is not
\* rational: a volatility is kept as its square, [sqrt_of |-> variance * 252]
TradingDays == 252

calculate_volatility(r) ==
    IF r = None THEN None
    ELSE Series([i \in 1..Len(r.cols) |->
            [asset |-> r.cols[i],
             value |-> [sqrt_of |-> RMul(Variance(r.data[i], 1), R(TradingDays))]]])

MarketSymbol == "SPY"

BetaAssets(r, market_symbol) ==
    SelectSeq(r.cols, LAMBDA a : a # market_symbol /\ ~AllNa(Column(r, a)))

\* np.var(market_returns) is Series.var(ddof=0): the population variance
beta_of(r, asset, market_symbol) ==
    RDiv(Covariance(Column(r, asset), Column(r, market_symbol)),
         Variance(Column(r, market_symbol), 0))

calculate_beta(r, market_symbol) ==
    IF r = None \/ ~HasColumn(r, market_symbol) THEN None
    ELSE LET as == BetaAssets(r, market_symbol)
         IN Series([i \in 1..Len(as) |->
                [asset |-> as[i], value |-> beta_of(r, as[i], market_symbol)]])

\* the assets whose column is not entirely nan, in column order
DefinedAssets(r) == SelectSeq(r.cols, LAMBDA a : ~AllNa(Column(r, a)))

\* s sorted ascending (values are finite)
RECURSIVE Insert(_, _)
Insert(x, s) ==
    IF s = <<>> THEN <<x>>
    ELSE IF RLe(x, Head(s)) THEN <<x>> \o s
    ELSE <<Head(s)>> \o Insert(x, Tail(s))

RECURSIVE SortRat(_)
SortRat(s) == IF s = <<>> THEN <<>> ELSE Insert(Head(s), SortRat(Tail(s)))

\* Series.quantile(q): linear interpolation between the order statistics
\* around position (m - 1) q of the m present cells
Quantile(col, q) ==
    LET v == SortRat(DropNa(col))
        pos == RMul(R(Len(v) - 1), q)
        lo == pos[1] \div pos[2]
        frac == RSub(pos, R(lo))
    IN IF frac = R(0) THEN v[lo + 1]
       ELSE RAdd(v[lo + 1], RMul(RSub(v[lo + 2], v[lo + 1]), frac))

ConfidenceLevel == <<1, 20>>

calculate_value_at_risk(r, confidence_level) ==
    IF r = None THEN None
    ELSE LET as == DefinedAssets(r)
         IN Series([i \in 1..Len(as) |->
                [asset |-> as[i], value |-> Quantile(Column(r, as[i]), confidence_level)]])

RiskFreeRate == <<1, 50>>

\* a Sharpe ratio mean/std is kept as [num |-> mean, sqrt_of |-> variance];
\* nan is [num |-> NaN, sqrt_of |-> NaN]
SharpeNaN == [num |-> NaN, sqrt_of |-> NaN]

\* sharpe_of dividing without the test for a zero standard deviation
sharpe_of_unguarded(col, risk_free_rate) ==
    LET v == DropNa(col)
        daily == RDiv(risk_free_rate, R(TradingDays))
        mean_excess_return == Mean([k \in 1..Len(v) |-> RSub(v[k], daily)])
        variance == Variance(col, 1)
    IN IF IsNaN(variance) THEN SharpeNaN
       ELSE [num |-> mean_excess_return, sqrt_of |-> variance]

sharpe_of(col, risk_free_rate) ==
    LET v == DropNa(col)
        daily == RDiv(risk_free_rate, R(TradingDays))
        mean_excess_return == Mean([k \in 1..Len(v) |-> RSub(v[k], daily)])
        variance == Variance(col, 1)
    IN IF variance # R(0)
       THEN IF IsNaN(variance) THEN SharpeNaN
            ELSE [num |-> mean_excess_return, sqrt_of |-> variance]
       ELSE SharpeNaN

calculate_sharpe_ratio(r, risk_free_rate) ==
    IF r = None THEN None
    ELSE LET as == DefinedAssets(r)
         IN Series([i \in 1..Len(as) |->
                [asset |-> as[i], value |-> sharpe_of(Column(r, as[i]), risk_free_rate)]])

\* (1 + r).cumprod() over the present cells
RECURSIVE CumProd(_, _)
CumProd(v, acc) ==
    IF v = <<>> THEN <<>>
    ELSE LET c == RMul(acc, RAdd(R(1), Head(v)))
         IN <<c>> \o CumProd(Tail(v), c)

RMax(a, b) == IF RLt(a, b) THEN b ELSE a

RMin(a, b) == IF RLt(b, a) THEN b ELSE a

\* expanding().max(): the largest value so far
RECURSIVE RunningMax(_, _)
RunningMax(c, k) == IF k = 1 THEN c[1] ELSE RMax(RunningMax(c, k - 1), c[k])

RECURSIVE MinSeq(_)
MinSeq(s) == IF Len(s) = 1 THEN s[1] ELSE RMin(s[1], MinSeq(Tail(s)))

\* the drawdown measured from the peak of the whole series, not from the
\* peak so far
max_drawdown_of_global_peak(col) ==
    LET cumulative_returns == CumProd(DropNa(col), R(1))
        drawdown == [k \in 1..Len(cumulative_returns) |->
                        LET running_max ==
                                RunningMax(cumulative_returns, Len(cumulative_returns))
                        IN RDiv(RSub(cumulative_returns[k], running_max), running_max)]
    IN MinSeq(drawdown)

\* the drawdown series of a column and its minimum; the cumulative series
\* starts at the first return, not at the value 1 before it
max_drawdown_of(col) ==
    LET cumulative_returns == CumProd(DropNa(col), R(1))
        drawdown == [k \in 1..Len(cumulative_returns) |->
                        LET running_max == RunningMax(cumulative_returns, k)
                        IN RDiv(RSub(cumulative_returns[k], running_max), running_max)]
    IN MinSeq(drawdown)

calculate_max_drawdown(r) ==
    IF r = None THEN None
    ELSE LET as == DefinedAssets(r)
         IN Series([i \in 1..Len(as) |->
                [asset |-> as[i], value |-> max_drawdown_of(Column(r, as[i]))]])

---------------------------------------------------------------------------
(* PortfolioRiskAnalyzer: classification and the report *)

\* volatility < t for a threshold t >= 0, on the squares
VolLt(v, t) == RLt(v.sqrt_of, RMul(t, t))

\* the bands with their upper bounds included
_classify_risk_level_inclusive(volatility) ==
    IF RLe(volatility.sqrt_of, RMul(<<15, 100>>, <<15, 100>>)) THEN "Low"
    ELSE IF RLe(volatility.sqrt_of, RMul(<<25, 100>>, <<25, 100>>)) THEN "Medium"
    ELSE IF RLe(volatility.sqrt_of, RMul(<<40, 100>>, <<40, 100>>)) THEN "High"
    ELSE "Very High"

_classify_risk_level(volatility) ==
    IF VolLt(volatility, <<15, 100>>) THEN "Low"
    ELSE IF VolLt(volatility, <<25, 100>>) THEN "Medium"
    ELSE IF VolLt(volatility, <<40, 100>>) THEN "High"
    ELSE "Very High"

_classify_beta_sensitivity(beta) ==
    IF RLt(beta, <<5, 10>>) THEN "Low sensitivity"
    ELSE IF RLt(beta, R(1)) THEN "Below avg sensitivity"
    ELSE IF RLt(beta, <<15, 10>>) THEN "Average sensitivity"
    ELSE "High sensitivity"

\* num/sqrt(v) > t for a threshold t >= 0
SharpeGt(s, t) ==
    /\ RLt(R(0), s.num)
    /\ RLt(RMul(RMul(t, t), s.sqrt_of), RMul(s.num, s.num))

_classify_performance(sharpe_ratio) ==
    IF SharpeGt(sharpe_ratio, R(1)) THEN "Excellent"
    ELSE IF SharpeGt(sharpe_ratio, <<5, 10>>) THEN "Good"
    ELSE IF SharpeGt(sharpe_ratio, R(0)) THEN "Poor"
    ELSE "Negative"

\* a/sqrt(v) < b/sqrt(w) for two Sharpe ratios that are not nan
SharpeLt(a, b) ==
    LET sa == Sign(a.num[1])
        sb == Sign(b.num[1])
        q == RDiv(a.num, b.num)
    IN IF sa # sb THEN sa < sb
       ELSE IF sa = 0 THEN FALSE
       ELSE IF sa > 0 THEN RLt(RMul(q, q), RDiv(a.sqrt_of, b.sqrt_of))
       ELSE RLt(RDiv(a.sqrt_of, b.sqrt_of), RMul(q, q))

VolValueLt(a, b) == RLt(a.sqrt_of, b.sqrt_of)

VolIsNa(v) == IsNaN(v.sqrt_of)

SharpeIsNa(v) == IsNaN(v.num)

Raised(e) == [kind |-> "raise", exc |-> e]

\* the order and the nan test of the values of a metric's series
ValueLt(metric, a, b) ==
    IF metric = "volatility" THEN VolValueLt(a, b)
    ELSE IF metric = "sharpe" THEN SharpeLt(a, b)
    ELSE RLt(a, b)

ValueIsNa(metric, v) ==
    IF metric = "volatility" THEN VolIsNa(v)
    ELSE IF metric = "sharpe" THEN SharpeIsNa(v)
    ELSE IsNaN(v)

\* the positions of a series whose value is not nan
Valid(s, metric) == {i \in 1..Len(s.items) : ~ValueIsNa(metric, s.items[i].value)}

\* Series.idxmax with skipna: the key of the first largest value that is
\* not nan
idxmax(s, metric) ==
    LET valid == Valid(s, metric)
    IN s.items[CHOOSE i \in valid :
                 \A j \in valid :
                    /\ ~ValueLt(metric, s.items[i].value, s.items[j].value)
                    /\ j < i => ValueLt(metric, s.items[j].value, s.items[i].value)].asset

\* Series.idxmin with skipna: the key of the first smallest value that is
\* not nan
idxmin(s, metric) ==
    LET valid == Valid(s, metric)
    IN s.items[CHOOSE i \in valid :
                 \A j \in valid :
                    /\ ~ValueLt(metric, s.items[j].value, s.items[i].value)
                    /\ j < i => ValueLt(metric, s.items[i].value, s.items[j].value)].asset

\* one block of section 7: skipped for an empty series, otherwise the two
\* assets printed. When every value is nan, idxmax answers nan and the
\* lookup series[nan] raises KeyError (pandas 3 raises ValueError in idxmax)
Ranking(s, metric) ==
    IF s.items = <<>> THEN [kind |-> "skipped"]
    ELSE IF Valid(s, metric) = {} THEN Raised("all-NA")
    ELSE [kind |-> "ranked", max |-> idxmax(s, metric), min |-> idxmin(s, metric)]

\* valid_sharpe = sharpe.dropna()
DropNaSharpe(s) == Series(SelectSeq(s.items, LAMBDA e : ~SharpeIsNa(e.value)))

\* _create_risk_summary: the five metrics in one table, then the rankings
\* in the order volatility, Sharpe ratio, drawdown; an exception ends it
_create_risk_summary(r) ==
    LET volatility == calculate_volatility(r)
        beta == calculate_beta(r, MarketSymbol)
        var_95 == calculate_value_at_risk(r, ConfidenceLevel)
        sharpe == calculate_sharpe_ratio(r, RiskFreeRate)
        max_dd == calculate_max_drawdown(r)
        vol_rank == Ranking(volatility, "volatility")
        sharpe_rank == Ranking(DropNaSharpe(sharpe), "sharpe")
        dd_rank == Ranking(max_dd, "drawdown")
    IN [table |-> [Volatility |-> volatility, Beta |-> beta, VaR |-> var_95,
                   Sharpe |-> sharpe, MaxDrawdown |-> max_dd],
        rankings |-> IF vol_rank.kind = "raise" THEN [volatility |-> vol_rank]
                     ELSE [volatility |-> vol_rank, sharpe |-> sharpe_rank,
                           drawdown |-> dd_rank]]

\* the label printed next to a value of a metric's series
LabelOf(metric, v) ==
    IF metric = "volatility" THEN _classify_risk_level(v)
    ELSE IF metric = "beta" THEN _classify_beta_sensitivity(v)
    ELSE IF ~SharpeIsNa(v) THEN _classify_performance(v)
    ELSE "NaN (insufficient data)"

Labelled(s, metric) ==
    IF s = None THEN None
    ELSE Series([i \in 1..Len(s.items) |->
            [asset |-> s.items[i].asset, value |-> s.items[i].value,
             label |-> LabelOf(metric, s.items[i].value)]])

\* what assess_individual_asset_risk prints after the returns are computed
Report(r) ==
    [kind |-> "report",
     volatility |-> Labelled(calculate_volatility(r), "volatility"),
     beta |-> Labelled(calculate_beta(r, MarketSymbol), "beta"),
     var_95 |-> calculate_value_at_risk(r, ConfidenceLevel),
     sharpe |-> Labelled(calculate_sharpe_ratio(r, RiskFreeRate), "sharpe"),
     max_dd |-> calculate_max_drawdown(r),
     summary |-> _create_risk_summary(r)]

---------------------------------------------------------------------------
(* PortfolioRiskAnalyzer: construction and loading *)

\* the paths of the file system, and the content of a path with no file
Paths == {"in.csv", "out.csv"}

NoFile == <<"ENOENT">>

TypeOK ==
    /\ fill_pad \in BOOLEAN
    /\ fund_data = <<>>
    /\ holdings_df \in {None, [kind |-> "df"]}
    /\ history_df.kind \in {"None", "df"}

\* __init__ of both analyzers, called without files
Init ==
    /\ history_df = None
    /\ holdings_df = None
    /\ fill_pad \in BOOLEAN
    /\ fund_data = <<>>
    /\ files = [path \in Paths |-> NoFile]
    /\ op = "init"
    /\ args = None
    /\ ret = None
    /\ out = None

load_holdings(f) ==
    /\ IF f.kind = "csv"
       THEN /\ holdings_df' = [kind |-> "df"]
            /\ out' = [kind |-> "loaded"]
       ELSE /\ holdings_df' = holdings_df
            /\ out' = [kind |-> "error"]
    /\ op' = "load_holdings"
    /\ args' = [file |-> f.kind]
    /\ ret' = None
    /\ UNCHANGED <<history_df, fill_pad, fund_data, files>>

load_history(f) ==
    /\ IF f.kind # "csv"
       THEN \* pd.read_csv raises: nothing was assigned
            /\ history_df' = history_df
            /\ out' = [kind |-> "error"]
            /\ args' = [file |-> f.kind]
       ELSE IF f.date = "bad"
       THEN \* the table is assigned, then pd.to_datetime raises
            /\ history_df' = read_csv(f)
            /\ out' = [kind |-> "error"]
            /\ args' = [file |-> "csv_bad_date"]
       ELSE /\ history_df' = [read_csv(f) EXCEPT
                                !.date = IF f.date = "good" THEN "datetime" ELSE "none"]
            /\ out' = [kind |-> "loaded"]
            /\ args' = [file |-> "csv"]
    /\ op' = "load_history"
    /\ ret' = None
    /\ UNCHANGED <<holdings_df, fill_pad, fund_data, files>>

LoadHoldings == \E f \in HoldingsFiles : load_holdings(f)

\* load_history may be called again on an analyzer that holds a table
LoadHistory == \E f \in HistoryFiles : load_history(f)

\* the client passes on what calculate_asset_returns gave it
Returns == calculate_asset_returns(history_df, fill_pad)

\* A call on the loaded analyzer. The client loads first and then calls, as
\* main() does; a call leaves the tables as they are, so the states reached
\* are those of any other order of loads and calls
LoadOps == {"init", "load_holdings", "load_history"}

Loaded == op \in LoadOps

Call(name, a, result, printed) ==
    /\ op' = name
    /\ args' = a
    /\ ret' = result
    /\ out' = printed
    /\ UNCHANGED <<history_df, holdings_df, fill_pad, fund_data, files>>

CalculateAssetReturns ==
    /\ Loaded
    /\ Call("calculate_asset_returns", None, Returns,
            IF history_df = None THEN [kind |-> "no_history"] ELSE None)

CalculateVolatility ==
    /\ Loaded
    /\ Call("calculate_volatility", [returns_df |-> Returns],
            calculate_volatility(Returns), None)

CalculateBeta ==
    /\ Loaded
    /\ \E market_symbol \in {"SPY", "AAA"} :
           Call("calculate_beta", [returns_df |-> Returns, market_symbol |-> market_symbol],
                calculate_beta(Returns, market_symbol),
                IF calculate_beta(Returns, market_symbol) = None
                THEN [kind |-> "no_market"] ELSE None)

CalculateValueAtRisk ==
    /\ Loaded
    /\ Call("calculate_value_at_risk", [returns_df |-> Returns],
            calculate_value_at_risk(Returns, ConfidenceLevel), None)

CalculateSharpeRatio ==
    /\ Loaded
    /\ Call("calculate_sharpe_ratio", [returns_df |-> Returns],
            calculate_sharpe_ratio(Returns, RiskFreeRate), None)

CalculateMaxDrawdown ==
    /\ Loaded
    /\ Call("calculate_max_drawdown", [returns_df |-> Returns],
            calculate_max_drawdown(Returns), None)

\* volatilities around every threshold of _classify_risk_level, and nan
VolatilityValues ==
    {R(0), <<1, 10>>, <<15, 100>>, <<2, 10>>, <<25, 100>>, <<3, 10>>,
     <<4, 10>>, <<1, 2>>, NaN}

\* _classify_risk_level reads nothing of the analyzer: it is called on the
\* analyzer as constructed
ClassifyRiskLevel ==
    /\ op = "init"
    /\ \E volatility \in VolatilityValues :
           Call("_classify_risk_level", [volatility |-> volatility],
                _classify_risk_level([sqrt_of |-> RMul(volatility, volatility)]), None)

\* assess_individual_asset_risk: returns early without a history; an
\* exception of the summary's rankings reaches the caller
assess_individual_asset_risk ==
    IF Returns = None THEN [ret |-> None, out |-> [kind |-> "no_history"]]
    ELSE LET report == Report(Returns)
             first == report.summary.rankings.volatility
         IN [ret |-> IF first.kind = "raise" THEN first ELSE None, out |-> report]

AssessIndividualAssetRisk ==
    /\ Loaded
    /\ Call("assess_individual_asset_risk", None,
            assess_individual_asset_risk.ret, assess_individual_asset_risk.out)

\* loading alone: both tables, in any order
NextLoad ==
    \/ LoadHoldings
    \/ LoadHistory

SpecLoad == Init /\ [][NextLoad]_vars

\* the price history and the calls that work on it
NextRisk ==
    \/ LoadHistory
    \/ CalculateAssetReturns
    \/ CalculateVolatility
    \/ CalculateBeta
    \/ CalculateValueAtRisk
    \/ CalculateSharpeRatio
    \/ CalculateMaxDrawdown
    \/ AssessIndividualAssetRisk
    \/ ClassifyRiskLevel

SpecRisk == Init /\ [][NextRisk]_vars

---------------------------------------------------------------------------
(* IndexFundFeeAnalyzer: the provider's answers *)

Tickers == {"VTI", "VOO"}

\* the field names tried for the expense ratio, in the order tried
ExpenseFields ==
    <<"netExpenseRatio", "expenseRatio", "annualReportExpenseRatio",
      "grossExpRatio", "netExpRatio">>

\* what fund.info holds for a field: no such key, None, a string, a number
Absent == <<"absent">>
PyNone == <<"None">>
StrValue == <<"str">>

IsNumber(v) == Len(v) = 2

\* numbers around every threshold of the normalisation and of the categories
RatioValues ==
    {<<-1, 2>>, R(0), <<3, 10000>>, <<1, 1000>>, <<5, 1000>>, <<9, 1000>>,
     <<1, 100>>, <<3, 100>>, <<1, 10>>, <<11, 100>>, <<1, 2>>, <<51, 100>>,
     R(1), R(2), R(100), R(101)}

\* infos with any mix of the five fields over a few values, and infos with
\* one field holding any of RatioValues
MixedValues == {Absent, PyNone, StrValue, <<3, 100>>, R(2)}

Infos ==
    [1..Len(ExpenseFields) -> MixedValues]
    \cup {[i \in 1..Len(ExpenseFields) |-> IF i = k THEN v ELSE Absent] :
            k \in 1..Len(ExpenseFields), v \in RatioValues}

\* yf.Ticker(ticker).info: an exception, or the mapping
Answers == {[kind |-> "raise"]} \cup {[kind |-> "info", info |-> i] : i \in Infos}

\* the answers given during a batch: an exception, no ratio, or one field
\* holding a number or a string
BatchValues == {Absent, StrValue, <<3, 10000>>, <<3, 100>>, R(2)}

BatchAnswers ==
    {[kind |-> "raise"]}
    \cup {[kind |-> "info",
           info |-> [i \in 1..Len(ExpenseFields) |-> IF i = 2 THEN v ELSE Absent]] :
            v \in BatchValues}

---------------------------------------------------------------------------
(* IndexFundFeeAnalyzer *)

NA == <<"N/A">>

\* the loop of get_fund_info over the field names: the value of the first
\* field that is present and not None, or PyNone
\* the loop without its break: the last usable field wins
RECURSIVE FirstField_nobreak(_, _)
FirstField_nobreak(info, k) ==
    IF k > Len(ExpenseFields) THEN PyNone
    ELSE LET later == FirstField_nobreak(info, k + 1)
         IN IF later # PyNone THEN later
            ELSE IF info[k] # Absent /\ info[k] # PyNone THEN info[k]
            ELSE PyNone

RECURSIVE FirstField(_, _)
FirstField(info, k) ==
    IF k > Len(ExpenseFields) THEN PyNone
    ELSE IF info[k] # Absent /\ info[k] # PyNone THEN info[k]
    ELSE FirstField(info, k + 1)

\* the unit guess: 0.01 <= v <= 1.0 and 1 < v <= 100 both divide by 100
\* the unit guess with 0.01 itself taken as a decimal
Normalize_open(v) ==
    IF RLt(<<1, 100>>, v) /\ RLe(v, R(100)) THEN RDiv(v, R(100)) ELSE v

Normalize(v) ==
    IF RLe(<<1, 100>>, v) /\ RLe(v, R(1)) THEN RDiv(v, R(100))
    ELSE IF RLt(R(1), v) /\ RLe(v, R(100)) THEN RDiv(v, R(100))
    ELSE v

\* get_fund_info: None when the provider raises or when the comparison of
\* a string with a number raises TypeError; otherwise the fund's record
get_fund_info(ticker, answer) ==
    IF answer.kind = "raise" THEN None
    ELSE LET found == FirstField(answer.info, 1)
         IN IF found = StrValue THEN None
            ELSE [kind |-> "fund_info", ticker |-> ticker,
                  expense_ratio |-> IF found = PyNone THEN NA ELSE Normalize(found)]

\* the categories with the bounds excluded
_categorize_expense_ratio_strict(expense_ratio) ==
    IF expense_ratio = NA THEN "N/A"
    ELSE IF RLt(expense_ratio, <<1, 1000>>) THEN "Low"
    ELSE IF RLt(expense_ratio, <<5, 1000>>) THEN "Medium"
    ELSE "High"

_categorize_expense_ratio(expense_ratio) ==
    IF expense_ratio = NA THEN "N/A"
    ELSE IF RLe(expense_ratio, <<1, 1000>>) THEN "Low"
    ELSE IF RLe(expense_ratio, <<5, 1000>>) THEN "Medium"
    ELSE "High"

_calculate_annual_cost(investment_amount, expense_ratio) ==
    IF expense_ratio = NA THEN R(0)
    ELSE RMul(investment_amount, expense_ratio)

analyze_single_fund(ticker, answer) ==
    LET fund_info == get_fund_info(ticker, answer)
    IN IF fund_info = None THEN [kind |-> "error", ticker |-> ticker]
       ELSE [kind |-> "analysis",
             ticker |-> fund_info.ticker,
             expense_ratio |-> fund_info.expense_ratio,
             fee_category |-> _categorize_expense_ratio(fund_info.expense_ratio),
             annual_cost_per_10k |-> _calculate_annual_cost(R(10000), fund_info.expense_ratio)]

\* the loop of compare_funds: the analyses without an error, in list order
\* the loop ended by the first error
RECURSIVE Results_abort(_, _, _)
Results_abort(tickers, answers, k) ==
    IF k > Len(tickers) THEN <<>>
    ELSE LET analysis == analyze_single_fund(tickers[k], answers[k])
         IN IF analysis.kind = "error" THEN <<>>
            ELSE <<analysis>> \o Results_abort(tickers, answers, k + 1)

RECURSIVE Results(_, _, _)
Results(tickers, answers, k) ==
    IF k > Len(tickers) THEN <<>>
    ELSE LET analysis == analyze_single_fund(tickers[k], answers[k])
         IN (IF analysis.kind # "error" THEN <<analysis>> ELSE <<>>)
            \o Results(tickers, answers, k + 1)

\* the line of line 76, printed when the lookup of the ticker fails
ErrorLine(ticker) == [kind |-> "error", ticker |-> ticker]

\* the lines printed during the loop of compare_funds: one for every
\* ticker whose get_fund_info gave None, in list order
RECURSIVE ErrorLines(_, _, _)
ErrorLines(tickers, answers, k) ==
    IF k > Len(tickers) THEN <<>>
    ELSE (IF get_fund_info(tickers[k], answers[k]) = None
          THEN <<ErrorLine(tickers[k])>> ELSE <<>>)
         \o ErrorLines(tickers, answers, k + 1)

\* what compare_funds prints: the error lines of the loop, then the line of
\* line 183 when no analysis is left; None when it prints nothing
Printed(tickers, answers) ==
    LET lines == ErrorLines(tickers, answers, 1)
                 \o (IF Results(tickers, answers, 1) = <<>>
                     THEN <<[kind |-> "no_valid_data"]>> ELSE <<>>)
    IN IF lines = <<>> THEN None ELSE [kind |-> "lines", lines |-> lines]

\* the rows left in the order of the tickers, without the sort
SortOrders_unsorted(rows) == {[i \in 1..Len(rows) |-> i]}

\* the row orders sort_values may give: the rows with a number first, by
\* ascending ratio (quicksort: rows with equal ratios in either order), then
\* the 'N/A' rows in their original order
SortOrders(rows) ==
    LET n == Len(rows)
        num == {i \in 1..n : rows[i].expense_ratio # NA}
    IN {p \in [1..n -> 1..n] :
          /\ \A i, j \in 1..n : i # j => p[i] # p[j]
          /\ \A i \in 1..n : p[i] \in num <=> i <= Cardinality(num)
          /\ \A i, j \in 1..n :
                i < j /\ j <= Cardinality(num)
                    => RLe(rows[p[i]].expense_ratio, rows[p[j]].expense_ratio)
          /\ \A i, j \in 1..n : Cardinality(num) < i /\ i < j => p[i] < p[j]}

\* compare_funds: the frames it may return (an empty frame without rows)
compare_funds(tickers, answers) ==
    LET results == Results(tickers, answers, 1)
    IN {[kind |-> "df", rows |-> [i \in 1..Len(results) |-> results[p[i]]]] :
            p \in SortOrders(results)}

\* the summary statistics of generate_report over the numeric ratios
Median(sorted) ==
    LET n == Len(sorted)
    IN IF n % 2 = 1 THEN sorted[(n + 1) \div 2]
       ELSE RDiv(RAdd(sorted[n \div 2], sorted[n \div 2 + 1]), R(2))

generate_report(df) ==
    IF df.rows = <<>> THEN [kind |-> "text", funds |-> <<>>, stats |-> None]
    ELSE LET numeric_ratios ==
                 SortRat([i \in 1..Len(DropNa([k \in 1..Len(df.rows) |->
                                 IF df.rows[k].expense_ratio = NA THEN NaN
                                 ELSE df.rows[k].expense_ratio])) |->
                             DropNa([k \in 1..Len(df.rows) |->
                                 IF df.rows[k].expense_ratio = NA THEN NaN
                                 ELSE df.rows[k].expense_ratio])[i]])
         IN [kind |-> "text",
             funds |-> [i \in 1..Len(df.rows) |->
                          [ticker |-> df.rows[i].ticker,
                           expense_ratio |-> df.rows[i].expense_ratio,
                           fee_category |-> df.rows[i].fee_category,
                           annual_cost_per_10k |-> df.rows[i].annual_cost_per_10k]],
             stats |-> IF numeric_ratios = <<>> THEN None
                       ELSE [kind |-> "stats",
                             mean |-> Mean(numeric_ratios),
                             median |-> Median(numeric_ratios),
                             min |-> numeric_ratios[1],
                             max |-> numeric_ratios[Len(numeric_ratios)]]]

TickerLists == UNION {[1..n -> Tickers] : n \in 0..MaxTickers}

GetFundInfo ==
    /\ Loaded
    /\ \E ticker \in Tickers, answer \in Answers :
           Call("get_fund_info", [ticker |-> ticker, answer |-> answer],
                get_fund_info(ticker, answer),
                IF get_fund_info(ticker, answer) = None
                THEN [kind |-> "lines", lines |-> <<ErrorLine(ticker)>>] ELSE None)

AnalyzeSingleFund ==
    /\ Loaded
    /\ \E ticker \in Tickers, answer \in Answers :
           Call("analyze_single_fund", [ticker |-> ticker, answer |-> answer],
                analyze_single_fund(ticker, answer),
                IF get_fund_info(ticker, answer) = None
                THEN [kind |-> "lines", lines |-> <<ErrorLine(ticker)>>] ELSE None)

CompareFunds ==
    /\ Loaded
    /\ \E tickers \in TickerLists :
           \E answers \in [1..Len(tickers) -> BatchAnswers] :
               \E df \in compare_funds(tickers, answers) :
                   Call("compare_funds", [tickers |-> tickers, answers |-> answers], df,
                        Printed(tickers, answers))

GenerateReport ==
    /\ Loaded
    /\ \E tickers \in TickerLists :
           \E answers \in [1..Len(tickers) -> BatchAnswers] :
               \E df \in compare_funds(tickers, answers) :
                   Call("generate_report", [tickers |-> tickers, answers |-> answers],
                        generate_report(df),
                        Printed(tickers, answers))

NextFee ==
    \/ GetFundInfo
    \/ AnalyzeSingleFund
    \/ CompareFunds
    \/ GenerateReport

SpecFee == Init /\ [][NextFee]_vars

---------------------------------------------------------------------------
(* process_portfolio: the csv module's reader and writer (dialect excel)   *)
(* over texts, which are sequences of characters                           *)

Quote == "\""
Comma == ","
LF == "\n"
CR == "\r"

\* the mark the reader is given at the end of every line it is fed
EOL == "EOL"

\* a file opened with newline='' ends a line after \n, \r\n or a lone \r
LineEnd(text, i) ==
    \/ text[i] = LF
    \/ text[i] = CR /\ (i = Len(text) \/ text[i + 1] # LF)

\* the characters the reader is fed: the lines of the file with their
\* terminators, each followed by the end-of-line mark
RECURSIVE FeedFrom(_, _)
FeedFrom(text, i) ==
    IF i > Len(text)
    THEN IF Len(text) > 0 /\ ~LineEnd(text, Len(text)) THEN <<EOL>> ELSE <<>>
    ELSE <<text[i]>> \o (IF LineEnd(text, i) THEN <<EOL>> ELSE <<>>)
            \o FeedFrom(text, i + 1)

\* csv.reader, not strict: the rows read from the fed characters from
\* position i on, in the given state with the field and the row so far. In
\* EAT_CRNL only a terminator or the end-of-line mark can follow
RECURSIVE reader(_, _, _, _, _)
reader(fed, i, state, field, row) ==
    IF i > Len(fed)
    THEN IF field # <<>> \/ state = "IN_QUOTED_FIELD" THEN <<Append(row, field)>>
         ELSE <<>>
    ELSE LET c == fed[i]
             \* the record ends here when the line ends, else the
             \* terminator is eaten first
             ended(r) == IF c = EOL THEN <<r>> \o reader(fed, i + 1, "START_RECORD", <<>>, <<>>)
                         ELSE reader(fed, i + 1, "EAT_CRNL", <<>>, r)
         IN IF state = "EAT_CRNL"
            THEN IF c = EOL THEN <<row>> \o reader(fed, i + 1, "START_RECORD", <<>>, <<>>)
                 ELSE reader(fed, i + 1, "EAT_CRNL", <<>>, row)
            ELSE IF state = "START_RECORD" /\ c = EOL
            THEN <<<<>>>> \o reader(fed, i + 1, "START_RECORD", <<>>, <<>>)
            ELSE IF state = "START_RECORD" /\ c \in {LF, CR}
            THEN reader(fed, i + 1, "EAT_CRNL", <<>>, <<>>)
            ELSE IF state \in {"START_RECORD", "START_FIELD"}
            THEN IF c \in {LF, CR, EOL} THEN ended(Append(row, <<>>))
                 ELSE IF c = Quote THEN reader(fed, i + 1, "IN_QUOTED_FIELD", <<>>, row)
                 ELSE IF c = Comma
                 THEN reader(fed, i + 1, "START_FIELD", <<>>, Append(row, <<>>))
                 ELSE reader(fed, i + 1, "IN_FIELD", <<c>>, row)
            ELSE IF state = "IN_FIELD"
            THEN IF c \in {LF, CR, EOL} THEN ended(Append(row, field))
                 ELSE IF c = Comma
                 THEN reader(fed, i + 1, "START_FIELD", <<>>, Append(row, field))
                 ELSE reader(fed, i + 1, "IN_FIELD", Append(field, c), row)
            ELSE IF state = "IN_QUOTED_FIELD"
            THEN IF c = EOL THEN reader(fed, i + 1, "IN_QUOTED_FIELD", field, row)
                 ELSE IF c = Quote
                 THEN reader(fed, i + 1, "QUOTE_IN_QUOTED_FIELD", field, row)
                 ELSE reader(fed, i + 1, "IN_QUOTED_FIELD", Append(field, c), row)
            ELSE \* QUOTE_IN_QUOTED_FIELD
                 IF c = Quote
                 THEN reader(fed, i + 1, "IN_QUOTED_FIELD", Append(field, c), row)
                 ELSE IF c = Comma
                 THEN reader(fed, i + 1, "START_FIELD", <<>>, Append(row, field))
                 ELSE IF c \in {LF, CR, EOL} THEN ended(Append(row, field))
                 ELSE reader(fed, i + 1, "IN_FIELD", Append(field, c), row)

\* the rows csv.reader gives for the text of a file
Rows(text) == reader(FeedFrom(text, 1), 1, "START_RECORD", <<>>, <<>>)

\* a field with every quote character doubled
RECURSIVE Doubled(_)
Doubled(field) ==
    IF field = <<>> THEN <<>>
    ELSE (IF Head(field) = Quote THEN <<Quote, Quote>> ELSE <<Head(field)>>)
            \o Doubled(Tail(field))

\* csv.writer, QUOTE_MINIMAL: a field is quoted when it holds a delimiter, a
\* quote or a terminator character, or is the empty only field of its row
WriteField(field, only) ==
    IF (\E k \in 1..Len(field) : field[k] \in {Comma, Quote, CR, LF})
       \/ (field = <<>> /\ only)
    THEN <<Quote>> \o Doubled(field) \o <<Quote>>
    ELSE field

RECURSIVE JoinFields(_, _)
JoinFields(row, k) ==
    IF k > Len(row) THEN <<>>
    ELSE (IF k > 1 THEN <<Comma>> ELSE <<>>) \o WriteField(row[k], Len(row) = 1)
            \o JoinFields(row, k + 1)

\* writer.writerow: the fields joined by commas, then \r\n
writerow(row) == JoinFields(row, 1) \o <<CR, LF>>

RECURSIVE WriteRows(_)
WriteRows(rows) ==
    IF rows = <<>> THEN <<>> ELSE writerow(Head(rows)) \o WriteRows(Tail(rows))

\* the characters str.strip() removes (those with str.isspace()) among the
\* characters a string of this module can hold: tab, line feed, vertical
\* tab, form feed, carriage return, the separators 1C to 1F, space, next
\* line (85), no-break space (A0) and ogham space mark (1680)
FormFeed == "\f"

Whitespace ==
    {" ", "\t", LF, CR, FormFeed, "", "", "", "", "", "", " ", " "}

\* str.strip() leaves something: some character is not whitespace
NotBlank(cell) == \E k \in 1..Len(cell) : cell[k] \notin Whitespace

\* header.index(column_name): the first position, counted from 0; -1 stands
\* for ValueError
Index(header, column_name) ==
    IF \E k \in 1..Len(header) : header[k] = column_name
    THEN (CHOOSE k \in 1..Len(header) :
            /\ header[k] = column_name
            /\ \A j \in 1..(k - 1) : header[j] # column_name) - 1
    ELSE -1

\* the test of line 28: the row is long enough and its cell is not blank
Kept(row, column_index) ==
    Len(row) > column_index /\ NotBlank(row[column_index + 1])

\* filter_and_rewrite_csv on the file system fs: the file system it leaves,
\* what it raises and what it prints. The input is opened first; opening the
\* output for writing creates or empties it before anything is read
filter_and_rewrite_csv(fs, input_file, output_file, column_name) ==
    IF fs[input_file] = NoFile
    THEN [files |-> fs, ret |-> Raised("FileNotFoundError"), out |-> None]
    ELSE LET opened == [fs EXCEPT ![output_file] = <<>>]
             rows == Rows(opened[input_file])
         IN IF rows = <<>>
            THEN [files |-> opened, ret |-> Raised("StopIteration"), out |-> None]
            ELSE LET header == Head(rows)
                     column_index == Index(header, column_name)
                 IN IF column_index = -1
                    THEN [files |-> [opened EXCEPT ![output_file] = writerow(header)],
                          ret |-> None, out |-> [kind |-> "column_not_found"]]
                    ELSE [files |-> [opened EXCEPT ![output_file] =
                                        writerow(header)
                                        \o WriteRows(SelectSeq(Tail(rows),
                                              LAMBDA row : Kept(row, column_index)))],
                          ret |-> None, out |-> None]

---------------------------------------------------------------------------
(* process_portfolio: the input files *)

\* the spellings of a cell in an input file: empty, a space, a form feed, a
\* letter, and quoted: a letter, a comma, nothing
RawFields ==
    {<<>>, <<" ">>, <<FormFeed>>, <<"a">>, <<Quote, "a", Quote>>,
     <<Quote, Comma, Quote>>, <<Quote, Quote>>}

\* the data lines: blank, one cell, or two cells
RawRows ==
    {<<>>} \cup {<<f>> : f \in RawFields}
    \cup {<<f, g>> : f \in {<<>>, <<"a">>}, g \in RawFields}

RECURSIVE JoinRaw(_, _)
JoinRaw(raw, k) ==
    IF k > Len(raw) THEN <<>>
    ELSE (IF k > 1 THEN <<Comma>> ELSE <<>>) \o raw[k] \o JoinRaw(raw, k + 1)

\* the line terminators of an input file
Terminators == {<<LF>>, <<CR, LF>>}

RECURSIVE Body(_, _)
Body(raws, eol) ==
    IF raws = <<>> THEN <<>>
    ELSE JoinRaw(Head(raws), 1) \o eol \o Body(Tail(raws), eol)

\* the header lines: the columns A and B in either order
Headers == {<<<<"A">>, <<"B">>>>, <<<<"B">>, <<"A">>>>}

\* the input texts: a header line and up to MaxDataRows data lines
Texts ==
    {Body(<<h>> \o raws, eol) :
        h \in Headers, eol \in Terminators,
        raws \in UNION {[1..n -> RawRows] : n \in 0..MaxDataRows}}

\* the column asked for: one of the header, one that is not
ColumnNames == {<<"B">>, <<"C">>}

\* a file is put at the input path before the script runs
PutFile ==
    /\ op = "init"
    /\ \E text \in Texts :
          /\ files' = [files EXCEPT !["in.csv"] = text]
          /\ op' = "put_file"
          /\ args' = [path |-> "in.csv"]
          /\ ret' = None
          /\ out' = None
    /\ UNCHANGED <<history_df, holdings_df, fill_pad, fund_data>>

FilterAndRewriteCsv ==
    /\ op \in {"init", "put_file"}
    /\ \E output_file \in Paths, column_name \in ColumnNames :
          LET result == filter_and_rewrite_csv(files, "in.csv", output_file, column_name)
          IN /\ files' = result.files
             /\ op' = "filter_and_rewrite_csv"
             /\ args' = [input_file |-> "in.csv", output_file |-> output_file,
                         column_name |-> column_name, files |-> files]
             /\ ret' = result.ret
             /\ out' = result.out
    /\ UNCHANGED <<history_df, holdings_df, fill_pad, fund_data>>

NextCsv == PutFile \/ FilterAndRewriteCsv

SpecCsv == Init /\ [][NextCsv]_vars

---------------------------------------------------------------------------
(* Properties *)

MetricOps ==
    {"calculate_volatility", "calculate_beta", "calculate_value_at_risk",
     "calculate_sharpe_ratio", "calculate_max_drawdown"}

\* the value a returned series holds for an asset
ValueOf(series, asset) ==
    series.items[CHOOSE i \in 1..Len(series.items) : series.items[i].asset = asset].value

Keys(series) == {series.items[i].asset : i \in 1..Len(series.items)}

Complete(col) == \A k \in 1..Len(col) : ~IsNaN(col[k])

\* C1: an asset whose returns equal the benchmark's row for row (two or
\* more rows, benchmark variance not zero) gets beta 1 from calculate_beta
C1_IdenticalAssetBetaOne ==
    (op = "calculate_beta" /\ args.returns_df # None
        /\ HasColumn(args.returns_df, args.market_symbol))
    => LET r == args.returns_df
           m == Column(r, args.market_symbol)
       IN \A i \in 1..Len(r.cols) :
              (/\ r.cols[i] # args.market_symbol
               /\ r.data[i] = m
               /\ Len(m) >= 2
               /\ Complete(m)
               /\ Variance(m, 0) # R(0))
              => ValueOf(ret, r.cols[i]) = R(1)

\* a complete price column with exactly one decline, to half the price
\* before it, and flat after it
SingleHalving(p) ==
    /\ Complete(p)
    /\ \E k \in 1..(Len(p) - 1) :
          /\ 2 * p[k + 1][1] = p[k][1]
          /\ \A t \in 1..(k - 1) : p[t][1] <= p[t + 1][1]
          /\ \A t \in (k + 1)..Len(p) : p[t] = p[k + 1]

\* C2: calculate_max_drawdown gives -0.5 for a price series with a single
\* drop to half and flat afterwards, wherever the drop is
C2_SingleHalvingDrawdown ==
    (op = "calculate_max_drawdown" /\ history_df # None)
    => \A i \in 1..Len(history_df.cols) :
          SingleHalving(history_df.data[i])
          => ValueOf(ret, history_df.cols[i]) = <<-1, 2>>

\* C3: a load that reports an error raises nothing and leaves its table None
C3_FailedLoadLeavesUnset ==
    /\ (op = "load_history" /\ out.kind = "error")
          => (ret = None /\ history_df = None)
    /\ (op = "load_holdings" /\ out.kind = "error")
          => (ret = None /\ holdings_df = None)

\* the number the provider gave, when its info holds one field and no other
OnlyValue(info) == info[CHOOSE k \in 1..Len(info) : info[k] # Absent]

OneNumber(info) ==
    /\ Cardinality({k \in 1..Len(info) : info[k] # Absent}) = 1
    /\ IsNumber(OnlyValue(info))

Hundredth(v) == Norm(v[1], 100 * v[2])

\* C4 as stated: v/100 is stored exactly when 0.01 < |v| <= 100, else v
C4_OpenMagnitudeInterval ==
    (op = "get_fund_info" /\ args.answer.kind = "info" /\ OneNumber(args.answer.info))
    => LET v == OnlyValue(args.answer.info)
       IN ret.expense_ratio =
            IF v[2] < 100 * Abs(v[1]) /\ Abs(v[1]) <= 100 * v[2]
            THEN Hundredth(v) ELSE v

\* C4 amended: v/100 is stored exactly when 0.01 <= v <= 100, else v; so
\* 0.03 becomes 0.0003, 0.0003 stays, and 0.01 becomes 0.0001
C4_ClosedInterval ==
    (op = "get_fund_info" /\ args.answer.kind = "info" /\ OneNumber(args.answer.info))
    => LET v == OnlyValue(args.answer.info)
       IN /\ ret.expense_ratio =
                IF v[2] <= 100 * v[1] /\ v[1] <= 100 * v[2]
                THEN Hundredth(v) ELSE v
          /\ v = <<3, 100>> => ret.expense_ratio = <<3, 10000>>
          /\ v = <<3, 10000>> => ret.expense_ratio = <<3, 10000>>
          /\ v = <<1, 100>> => ret.expense_ratio = <<1, 10000>>

C4_Witness ==
    /\ op = "get_fund_info"
    /\ args.answer.kind = "info"
    /\ OneNumber(args.answer.info)
    /\ OnlyValue(args.answer.info) = <<1, 100>>
    /\ ret.expense_ratio = <<1, 10000>>

\* the positions of a batch whose provider lookup did not raise
Succeeded(a) == {i \in 1..Len(a.answers) : a.answers[i].kind # "raise"}

\* C5 as stated: a lookup that raises gives the error value and no row, the
\* batch goes on, nothing is raised, and every lookup that did not raise has
\* its one row
C5_BatchSurvivesErrors ==
    /\ (op = "analyze_single_fund" /\ args.answer.kind = "raise")
          => ret.kind = "error"
    /\ op = "compare_funds"
          => /\ ret.kind = "df"
             /\ Len(ret.rows) = Cardinality(Succeeded(args))
             /\ \A t \in Tickers :
                   Cardinality({i \in 1..Len(ret.rows) : ret.rows[i].ticker = t})
                       = Cardinality({i \in Succeeded(args) : args.tickers[i] = t})
    /\ op = "generate_report"
          => /\ ret.kind = "text"
             /\ Len(ret.funds) = Cardinality(Succeeded(args))
             /\ \A t \in Tickers :
                   Cardinality({i \in 1..Len(ret.funds) : ret.funds[i].ticker = t})
                       = Cardinality({i \in Succeeded(args) : args.tickers[i] = t})

\* a value the loop over the field names stops at
Usable(v) == v # Absent /\ v # PyNone

\* the lookup of a fund fails: the provider raises, or the first usable
\* field holds something that is no number
LookupFails(answer) ==
    \/ answer.kind = "raise"
    \/ /\ answer.kind = "info"
       /\ \E k \in 1..Len(ExpenseFields) :
             /\ Usable(answer.info[k])
             /\ \A j \in 1..(k - 1) : ~Usable(answer.info[j])
             /\ ~IsNumber(answer.info[k])

\* the positions of a batch whose lookup gave a fund
Answered(a) == {i \in 1..Len(a.answers) : ~LookupFails(a.answers[i])}

\* C5 amended: a lookup that fails, because the provider raises or because
\* the ratio it gives is no number, gives the error value and no row; every
\* other lookup gives an analysis; the batch goes on, nothing is raised, and
\* every ticker whose lookup did not fail has its one row
C5_FailedLookupsDropped ==
    /\ op = "analyze_single_fund"
          => (ret.kind = "error" <=> LookupFails(args.answer))
    /\ op = "compare_funds"
          => /\ ret.kind = "df"
             /\ Len(ret.rows) = Cardinality(Answered(args))
             /\ \A t \in Tickers :
                   Cardinality({i \in 1..Len(ret.rows) : ret.rows[i].ticker = t})
                       = Cardinality({i \in Answered(args) : args.tickers[i] = t})
    /\ op = "generate_report"
          => /\ ret.kind = "text"
             /\ Len(ret.funds) = Cardinality(Answered(args))
             /\ \A t \in Tickers :
                   Cardinality({i \in 1..Len(ret.funds) : ret.funds[i].ticker = t})
                       = Cardinality({i \in Answered(args) : args.tickers[i] = t})

\* a batch of two lookups: the first gives a string and no row, the second
\* gives a number and is the one row
C5_Witness ==
    /\ op = "compare_funds"
    /\ Len(args.tickers) = 2
    /\ args.answers[1].kind = "info"
    /\ args.answers[1].info[2] = StrValue
    /\ args.answers[2].kind = "info"
    /\ IsNumber(args.answers[2].info[2])
    /\ Len(ret.rows) = 1
    /\ ret.rows[1].ticker = args.tickers[2]

\* C6: the category is N/A without a ratio, else Low up to 0.001, Medium
\* above it up to 0.005, High above that: always one of the four
C6_FeeCategories ==
    (op = "analyze_single_fund" /\ ret.kind = "analysis")
    => LET e == ret.expense_ratio
       IN /\ ret.fee_category \in {"N/A", "Low", "Medium", "High"}
          /\ ret.fee_category = "N/A" <=> e = NA
          /\ e # NA =>
                /\ ret.fee_category = "Low" <=> 1000 * e[1] <= e[2]
                /\ ret.fee_category = "Medium"
                      <=> (1000 * e[1] > e[2] /\ 200 * e[1] <= e[2])
                /\ ret.fee_category = "High" <=> 200 * e[1] > e[2]

C6_Witness ==
    /\ op = "analyze_single_fund"
    /\ ret.kind = "analysis"
    /\ ret.expense_ratio = <<1, 1000>>
    /\ ret.fee_category = "Low"

\* C7: the ratio comes from the first field, in the fixed order, that is
\* present and not None, whatever later fields hold (a first usable value
\* that is no number ends the lookup without a record); the ratio is 'N/A'
\* exactly when no field is usable
C7_FirstUsableField ==
    (op = "get_fund_info" /\ args.answer.kind = "info")
    => LET info == args.answer.info
       IN /\ \A k \in 1..Len(ExpenseFields) :
                (Usable(info[k]) /\ \A j \in 1..(k - 1) : ~Usable(info[j]))
                => IF IsNumber(info[k])
                   THEN ret # None /\ ret.expense_ratio = Normalize(info[k])
                   ELSE ret = None
          /\ (\A k \in 1..Len(ExpenseFields) : ~Usable(info[k]))
                <=> (ret # None /\ ret.expense_ratio = NA)

C7_Witness ==
    /\ op = "get_fund_info"
    /\ ret # None
    /\ args.answer.info[1] = PyNone
    /\ args.answer.info[2] = <<3, 100>>
    /\ args.answer.info[4] = R(2)
    /\ ret.expense_ratio = <<3, 10000>>

\* the return a returns table holds for column i at row t of the prices
ReturnAt(r, i, t) ==
    IF \E k \in 1..Len(r.idx) : r.idx[k] = t
    THEN r.data[i][CHOOSE k \in 1..Len(r.idx) : r.idx[k] = t]
    ELSE NaN

Present(p) == {t \in 1..Len(p) : ~IsNaN(p[t])}

NumReturns(r, i) == Cardinality({k \in 1..Len(r.idx) : ~IsNaN(r.data[i][k])})

\* price[t]/price[t-1] - 1 for two present prices
Change(p, t) == Norm(p[t][1] - p[t - 1][1], p[t - 1][1])

\* C8 as stated: every asset column with n >= 2 prices has exactly n - 1
\* returns, each price[t]/price[t-1] - 1 over consecutive observations
C8_EveryColumn ==
    (op = "calculate_asset_returns" /\ history_df # None)
    => \A i \in 1..Len(history_df.cols) :
          LET p == history_df.data[i]
          IN Cardinality(Present(p)) >= 2
             => /\ ret.cols[i] = history_df.cols[i]
                /\ NumReturns(ret, i) = Cardinality(Present(p)) - 1
                /\ \A t \in 2..Len(p) :
                      (t \in Present(p) /\ t - 1 \in Present(p))
                      => ReturnAt(ret, i, t) = Change(p, t)

\* no price is missing after the first one of the column
Gapless(p) ==
    /\ Present(p) # {}
    /\ \A t \in 1..Len(p) : (\E u \in Present(p) : u <= t) => t \in Present(p)

\* the last price at or before row t, nan when there is none
LastPrice(p, t) ==
    IF \E u \in Present(p) : u <= t
    THEN p[CHOOSE u \in Present(p) :
               u <= t /\ \A v \in Present(p) : v <= t => v <= u]
    ELSE NaN

\* b/a - 1 for two prices, nan when one of them is missing
ChangeFrom(a, b) ==
    IF IsNaN(a) \/ IsNaN(b) THEN NaN ELSE Norm(b[1] - a[1], a[1])

\* C8 amended: an asset column that misses no price after its first one has
\* n - 1 returns, each price[t]/price[t-1] - 1. For every column the returns
\* go by rows: without forward fill (pandas from 3.0) row t has a return
\* exactly when rows t and t - 1 both hold a price; with forward fill
\* (pandas before 3.0) every row after the first price has one, taken
\* between the last prices at or before rows t - 1 and t
C8_ReturnsByRow ==
    (op = "calculate_asset_returns" /\ history_df # None)
    => /\ ret.cols = history_df.cols
       /\ \A i \in 1..Len(history_df.cols) :
             LET p == history_df.data[i]
             IN /\ (Gapless(p) /\ Cardinality(Present(p)) >= 2)
                      => /\ NumReturns(ret, i) = Cardinality(Present(p)) - 1
                         /\ \A t \in 1..Len(p) :
                               ReturnAt(ret, i, t) =
                                  IF t \in Present(p) /\ t - 1 \in Present(p)
                                  THEN Change(p, t) ELSE NaN
                /\ ~fill_pad
                      => \A t \in 1..Len(p) :
                            ReturnAt(ret, i, t) =
                               IF t \in Present(p) /\ t - 1 \in Present(p)
                               THEN Change(p, t) ELSE NaN
                /\ fill_pad
                      => \A t \in 1..Len(p) :
                            ReturnAt(ret, i, t) =
                               IF t > 1
                               THEN ChangeFrom(LastPrice(p, t - 1), LastPrice(p, t))
                               ELSE NaN

\* the first column is complete and has its two returns; the second has a
\* price, a missing cell and a price, and no return without forward fill
C8_Witness ==
    /\ op = "calculate_asset_returns"
    /\ history_df # None
    /\ ~fill_pad
    /\ history_df.data[1] = <<R(1), R(2), R(1)>>
    /\ history_df.data[2] = <<R(2), NaN, R(1)>>
    /\ ret.idx = <<2, 3>>
    /\ ret.data[1] = <<R(1), <<-1, 2>>>>
    /\ ret.data[2] = <<NaN, NaN>>

\* no history was loaded: load_history was never called, or it failed (a
\* Date column left as strings is what a failed conversion leaves behind)
NoHistoryLoaded == history_df = None \/ history_df.date = "str"

\* C9: without a loaded history calculate_asset_returns returns None, the
\* metrics return None for None, and the assessment returns at once
C9_NothingWithoutHistory ==
    /\ (op = "calculate_asset_returns" /\ NoHistoryLoaded) => ret = None
    /\ (op \in MetricOps /\ args.returns_df = None) => ret = None
    /\ (op = "assess_individual_asset_risk" /\ NoHistoryLoaded)
          => (ret = None /\ out.kind = "no_history")

\* C10: calculate_beta leaves out the benchmark and the assets whose
\* returns are all undefined and keeps every other asset; without the
\* benchmark it gives no beta and nothing fatal happens: the assessment
\* still gives the other metrics and the whole summary
C10_BetaSkipsNotFatal ==
    /\ (op = "calculate_beta" /\ args.returns_df # None)
          => LET r == args.returns_df
                 m == args.market_symbol
             IN IF HasColumn(r, m)
                THEN /\ ret # None
                     /\ Keys(ret) = {r.cols[i] : i \in
                                        {j \in 1..Len(r.cols) :
                                            r.cols[j] # m /\ ~AllNa(r.data[j])}}
                ELSE ret = None
    /\ (op = "assess_individual_asset_risk" /\ history_df # None
           /\ \A i \in 1..Len(history_df.cols) : history_df.cols[i] # MarketSymbol)
          => /\ ret = None
             /\ out.kind = "report"
             /\ out.beta = None
             /\ out.volatility # None /\ out.var_95 # None
             /\ out.sharpe # None /\ out.max_dd # None
             /\ DOMAIN out.summary.rankings = {"volatility", "sharpe", "drawdown"}

\* the classes _classify_performance can give
PerformanceClasses == {"Excellent", "Good", "Poor", "Negative"}

\* C11: calculate_sharpe_ratio gives every asset with a defined return a
\* value and raises nothing: nan when the standard deviation of the returns
\* is zero, otherwise (mean of the returns - risk_free_rate/252) over the
\* standard deviation (nan when that is nan); the assessment prints a nan
\* entry as 'NaN (insufficient data)' and classifies every other entry
C11_SharpeNaNNotRaised ==
    /\ (op = "calculate_sharpe_ratio" /\ args.returns_df # None)
          => LET r == args.returns_df
             IN /\ ret # None
                /\ Keys(ret) = {r.cols[i] : i \in {j \in 1..Len(r.cols) : ~AllNa(r.data[j])}}
                /\ \A i \in 1..Len(r.cols) :
                      ~AllNa(r.data[i])
                      => LET variance == Variance(r.data[i], 1)
                             value == ValueOf(ret, r.cols[i])
                         IN IF variance = R(0) \/ IsNaN(variance)
                            THEN value = SharpeNaN
                            ELSE /\ value.sqrt_of = variance
                                 /\ value.num =
                                        RSub(Mean(DropNa(r.data[i])),
                                             Norm(RiskFreeRate[1], RiskFreeRate[2] * 252))
    /\ (op = "assess_individual_asset_risk" /\ out.kind = "report")
          => \A k \in 1..Len(out.sharpe.items) :
                LET e == out.sharpe.items[k]
                IN IF e.value = SharpeNaN THEN e.label = "NaN (insufficient data)"
                   ELSE e.label \in PerformanceClasses

C11_Witness ==
    /\ op = "assess_individual_asset_risk"
    /\ out.kind = "report"
    /\ Len(out.sharpe.items) = 2
    /\ out.sharpe.items[1].value # SharpeNaN
    /\ out.sharpe.items[2].value = SharpeNaN
    /\ Variance(Column(Returns, out.sharpe.items[2].asset), 1) = R(0)
    /\ out.sharpe.items[2].label = "NaN (insufficient data)"

\* a price column that never changes over three or more observations
ConstantPrice(p) ==
    /\ Cardinality(Present(p)) >= 3
    /\ \A t, u \in Present(p) : p[t] = p[u]

\* the labelled volatility of column i of the history in a printed report
VolEntry(i) ==
    out.volatility.items[CHOOSE k \in 1..Len(out.volatility.items) :
                            out.volatility.items[k].asset = history_df.cols[i]]

\* the band of a volatility v that is a number
BandOf(v) ==
    IF RLt(v, <<15, 100>>) THEN "Low"
    ELSE IF RLt(v, <<25, 100>>) THEN "Medium"
    ELSE IF RLt(v, <<40, 100>>) THEN "High"
    ELSE "Very High"

\* C12 as stated: a price constant over three or more observations gets
\* volatility exactly 0 and "Low"; a volatility is classified Low below
\* 0.15, Medium from 0.15 to below 0.25, High from 0.25 to below 0.40, and
\* Very High from 0.40 upwards and in no other case
C12_ConstantPriceZeroLow ==
    /\ (op = "assess_individual_asset_risk" /\ out.kind = "report")
          => \A i \in 1..Len(history_df.cols) :
                ConstantPrice(history_df.data[i])
                => /\ VolEntry(i).value = [sqrt_of |-> R(0)]
                   /\ VolEntry(i).label = "Low"
    /\ op = "_classify_risk_level"
          => /\ ~IsNaN(args.volatility) => ret = BandOf(args.volatility)
             /\ ret = "Very High"
                   => (~IsNaN(args.volatility) /\ RLe(<<40, 100>>, args.volatility))

\* C12 amended: the same for a constant price with no cell missing after
\* its first one; Very High is given from 0.40 upwards and to a volatility
\* that is nan
C12_GaplessConstantZeroLow ==
    /\ (op = "assess_individual_asset_risk" /\ out.kind = "report")
          => \A i \in 1..Len(history_df.cols) :
                (ConstantPrice(history_df.data[i]) /\ Gapless(history_df.data[i]))
                => /\ VolEntry(i).value = [sqrt_of |-> R(0)]
                   /\ VolEntry(i).label = "Low"
    /\ op = "_classify_risk_level"
          => ret = IF IsNaN(args.volatility) THEN "Very High"
                   ELSE BandOf(args.volatility)

C12_Witness ==
    /\ op = "assess_individual_asset_risk"
    /\ out.kind = "report"
    /\ history_df.data[2] = <<R(2), R(2), R(2)>>
    /\ VolEntry(2).value = [sqrt_of |-> R(0)]
    /\ VolEntry(2).label = "Low"

\* a price column of two or more prices, none below a price before it
Monotone(p) ==
    /\ Cardinality(Present(p)) >= 2
    /\ \A t, u \in Present(p) : t < u => RLe(p[t], p[u])

\* C13 as stated: calculate_max_drawdown on the returns of an increasing
\* price series gives that asset exactly 0
C13_EveryIncreasingSeries ==
    (op = "calculate_max_drawdown" /\ history_df # None)
    => \A i \in 1..Len(history_df.cols) :
          Monotone(history_df.data[i])
          => /\ history_df.cols[i] \in Keys(ret)
             /\ ValueOf(ret, history_df.cols[i]) = R(0)

\* two prices stand in rows next to each other
Adjacent(p) == \E t \in 2..Len(p) : t \in Present(p) /\ t - 1 \in Present(p)

\* an increasing price column with two prices in rows next to each other
Increasing(p) == Monotone(p) /\ Adjacent(p)

\* C13 amended: calculate_max_drawdown on the returns of an increasing price
\* series that has two prices in rows next to each other gives that asset
\* exactly 0; an increasing series without such a pair gives 0 as well
\* with forward fill and is left out of the result without it
C13_IncreasingNoDrawdown ==
    (op = "calculate_max_drawdown" /\ history_df # None)
    => \A i \in 1..Len(history_df.cols) :
          LET p == history_df.data[i]
          IN /\ Increasing(p)
                   => /\ history_df.cols[i] \in Keys(ret)
                      /\ ValueOf(ret, history_df.cols[i]) = R(0)
             /\ (Monotone(p) /\ ~Adjacent(p))
                   => IF fill_pad
                      THEN /\ history_df.cols[i] \in Keys(ret)
                           /\ ValueOf(ret, history_df.cols[i]) = R(0)
                      ELSE history_df.cols[i] \notin Keys(ret)

C13_Witness ==
    /\ op = "calculate_max_drawdown"
    /\ history_df # None
    /\ history_df.data[1] = <<R(1), R(2), R(2)>>
    /\ history_df.data[2] = <<R(1), R(1), R(2)>>
    /\ ValueOf(ret, history_df.cols[1]) = R(0)
    /\ ValueOf(ret, history_df.cols[2]) = R(0)

\* the entries of a metric's series whose value is not nan
Ranked(series, metric) ==
    {k \in 1..Len(series.items) : ~ValueIsNa(metric, series.items[k].value)}

\* a printed ranking names an asset with the largest and one with the
\* smallest value among the entries that are not nan; nothing is printed
\* when there is no such entry
IsExtremes(rank, series, metric) ==
    IF Ranked(series, metric) = {} THEN rank.kind = "skipped"
    ELSE /\ rank.kind = "ranked"
         /\ \E k \in Ranked(series, metric) :
               /\ series.items[k].asset = rank.max
               /\ \A j \in Ranked(series, metric) :
                     ~ValueLt(metric, series.items[k].value, series.items[j].value)
         /\ \E k \in Ranked(series, metric) :
               /\ series.items[k].asset = rank.min
               /\ \A j \in Ranked(series, metric) :
                     ~ValueLt(metric, series.items[j].value, series.items[k].value)

\* C14: _create_risk_summary reports the assets with the highest and lowest
\* volatility, the best and worst Sharpe ratio among the entries that are
\* not nan (none when all are nan), and the smallest (least negative) and
\* largest (most negative) maximum drawdown
C14_RankingsReported ==
    (op = "assess_individual_asset_risk" /\ out.kind = "report")
    => LET summary == out.summary
       IN /\ DOMAIN summary.rankings = {"volatility", "sharpe", "drawdown"}
          /\ IsExtremes(summary.rankings.volatility, summary.table.Volatility, "volatility")
          /\ IsExtremes(summary.rankings.sharpe, summary.table.Sharpe, "sharpe")
          /\ IsExtremes(summary.rankings.drawdown, summary.table.MaxDrawdown, "drawdown")

\* rows in ascending order of their numeric ratio, the 'N/A' rows last
AscendingNALast(rows) ==
    \A i, j \in 1..Len(rows) :
        i < j => /\ rows[i].expense_ratio = NA => rows[j].expense_ratio = NA
                 /\ (rows[i].expense_ratio # NA /\ rows[j].expense_ratio # NA)
                       => RLe(rows[i].expense_ratio, rows[j].expense_ratio)

\* C15: the rows of compare_funds are in ascending order of the numeric
\* expense ratio with every 'N/A' fund after all funds with a number, and
\* generate_report lists the funds in that order
C15_SortedByRatioNALast ==
    /\ op = "compare_funds" => AscendingNALast(ret.rows)
    /\ op = "generate_report" => AscendingNALast(ret.funds)

C15_Witness ==
    /\ op = "generate_report"
    /\ Len(args.tickers) = 2
    /\ args.tickers[1] # args.tickers[2]
    /\ args.answers[1].kind = "info"
    /\ args.answers[1].info[2] = Absent
    /\ args.answers[2].kind = "info"
    /\ args.answers[2].info[2] = <<3, 100>>
    /\ Len(ret.funds) = 2
    /\ ret.funds[1].ticker = args.tickers[2]
    /\ ret.funds[1].expense_ratio = <<3, 10000>>
    /\ ret.funds[2].ticker = args.tickers[1]
    /\ ret.funds[2].expense_ratio = NA

\* the rows of the input file as it was before the call, and its header
InputRows == Rows(args.files[args.input_file])

\* the data row has a cell under the named column of the header, and the
\* cell holds a character that is not whitespace
HasVisibleCell(row) ==
    \E k \in 1..Len(row) :
        /\ InputRows[1][k] = args.column_name
        /\ \A j \in 1..(k - 1) : InputRows[1][j] # args.column_name
        /\ \E n \in 1..Len(row[k]) : row[k][n] \notin Whitespace

\* C16: for an input whose header holds the named column, the output file
\* holds the header row and then exactly the data rows with a visible cell
\* under that column, in order and with their cells as they were; nothing is
\* raised and the input file is as it was
C16_FilteredRowsInputKept ==
    (/\ op = "filter_and_rewrite_csv"
     /\ args.files[args.input_file] # NoFile
     /\ \E k \in 1..Len(InputRows[1]) : InputRows[1][k] = args.column_name)
    => /\ ret = None
       /\ Rows(files[args.output_file])
             = <<InputRows[1]>> \o SelectSeq(Tail(InputRows), HasVisibleCell)
       /\ files[args.input_file] = args.files[args.input_file]

Next == NextLoad \/ NextRisk \/ NextFee \/ NextCsv

Spec == Init /\ [][Next]_vars

====
